---- MODULE Spec2Model ----
(***************************************************************************)
(* A model of src/diff.rs: the content-based directory differencer.        *)
(*                                                                         *)
(* Strings are sequences of one-character strings, a relative path         *)
(* (PathBuf) is the sequence of its components, and a directory tree is a  *)
(* record with the kind of its root and a function from the relative path  *)
(* of every regular file to the file's bytes.                              *)
(***************************************************************************)
EXTENDS Integers, Sequences, FiniteSets, TLC

(***************************************************************************)
(* Bounds of the model.                                                    *)
(***************************************************************************)
\* The hosts considered have 1..MaxCpus logical CPUs.
MaxCpus == 5
\* At most MaxFaults per-file I/O failures are injected in one comparison.
MaxFaults == 1

(***************************************************************************)
(* Program constants.                                                      *)
(***************************************************************************)
\* diff.rs:20,24  std::cmp::min(cpus, 4)
DefaultThreadCap == 4

(***************************************************************************)
(* Option<T>.                                                              *)
(***************************************************************************)
None == [some |-> FALSE]
Some(v) == [some |-> TRUE, val |-> v]

(***************************************************************************)
(* Strings used as inputs.                                                 *)
(***************************************************************************)
s_a_txt == <<"a", ".", "t", "x", "t">>
s_b_txt == <<"b", ".", "t", "x", "t">>
s_a_log == <<"a", ".", "l", "o", "g">>
s_a_LOG == <<"a", ".", "L", "O", "G">>
s_a_tar_gz == <<"a", ".", "t", "a", "r", ".", "g", "z">>
s_a_dot == <<"a", ".">>
s_README == <<"R", "E", "A", "D", "M", "E">>
s_build == <<"b", "u", "i", "l", "d">>
s_rebuild == <<"r", "e", "b", "u", "i", "l", "d">>
s_build_rs == <<"b", "u", "i", "l", "d", ".", "r", "s">>
s_src == <<"s", "r", "c">>
s_dot_git == <<".", "g", "i", "t">>
s_dot_env == <<".", "e", "n", "v">>
s_log == <<"l", "o", "g">>
s_dot_log == <<".", "l", "o", "g">>
s_dot_LOG == <<".", "L", "O", "G">>
s_gz == <<"g", "z">>
s_tar_gz == <<"t", "a", "r", ".", "g", "z">>
s_dot == <<".">>
s_src_bs_build == <<"s", "r", "c", "\\", "b", "u", "i", "l", "d">>
s_src_sl_build == <<"s", "r", "c", "/", "b", "u", "i", "l", "d">>
s_build_sl == <<"b", "u", "i", "l", "d", "/">>

(***************************************************************************)
(* String helpers (std::str).                                              *)
(***************************************************************************)
\* str::starts_with
starts_with(s, t) == Len(t) <= Len(s) /\ SubSeq(s, 1, Len(t)) = t

\* str::ends_with
ends_with(s, t) ==
  Len(t) <= Len(s) /\ SubSeq(s, Len(s) - Len(t) + 1, Len(s)) = t

\* str::contains, as a left-to-right scan for the pattern
RECURSIVE contains(_, _)
contains(s, t) ==
  IF Len(s) < Len(t) THEN FALSE
  ELSE IF starts_with(s, t) THEN TRUE
  ELSE contains(Tail(s), t)

\* str::replace(from, to) for a one-character pattern
RECURSIVE replace(_, _, _)
replace(s, from, to) ==
  IF s = <<>> THEN <<>>
  ELSE <<(IF Head(s) = from THEN to ELSE Head(s))>> \o replace(Tail(s), from, to)

\* Index of the last occurrence of character c in s, 0 when there is none.
RECURSIVE rfind(_, _)
rfind(s, c) ==
  IF s = <<>> THEN 0
  ELSE IF s[Len(s)] = c THEN Len(s)
  ELSE rfind(SubSeq(s, 1, Len(s) - 1), c)

(***************************************************************************)
(* std::path.                                                              *)
(***************************************************************************)
\* std::path::MAIN_SEPARATOR for the build target
MAIN_SEPARATOR(win) == IF win THEN "\\" ELSE "/"

\* Path::display().to_string(): the components joined by the separator.
RECURSIVE display(_, _)
display(path, win) ==
  IF path = <<>> THEN <<>>
  ELSE IF Len(path) = 1 THEN path[1]
  ELSE path[1] \o <<MAIN_SEPARATOR(win)>> \o display(Tail(path), win)

\* Path::extension(): None without a file name, without a '.' in it, or when
\* the only '.' is the first character; else the text after the last '.'.
extension(path) ==
  IF path = <<>> THEN None
  ELSE LET file == path[Len(path)]
           i == rfind(file, ".")
       IN IF i = 0 THEN None
          ELSE IF SubSeq(file, 1, i - 1) = <<>> THEN None
          ELSE Some(SubSeq(file, i + 1, Len(file)))

(***************************************************************************)
(* should_exclude (diff.rs:63-98).  The rule lists are Option<&[String]>.  *)
(***************************************************************************)
\* A variant that matches a rule against the end of the file name.
ExtensionExcluded_BySuffix(path, extensions) ==
  /\ extensions.some
  /\ path # <<>>
  /\ \E k \in 1..Len(extensions.val) :
       \/ ends_with(path[Len(path)], <<".">> \o extensions.val[k])
       \/ /\ starts_with(extensions.val[k], <<".">>)
          /\ ends_with(path[Len(path)], extensions.val[k])

\* diff.rs:69-76
ExtensionExcluded(path, extensions) ==
  /\ extensions.some
  /\ extension(path).some
  /\ LET ext == extension(path).val
         dot_ext == <<".">> \o ext
     IN \E k \in 1..Len(extensions.val) :
          extensions.val[k] = dot_ext \/ extensions.val[k] = ext

\* diff.rs:83-87
platform_dir(dir, win) ==
  IF win THEN replace(dir, "/", "\\") ELSE replace(dir, "\\", "/")

\* A variant that matches a fragment against whole leading components.
DirExcluded_WholeComponents(path, dirs, win) ==
  /\ dirs.some
  /\ \E k \in 1..Len(dirs.val) : \E i \in 1..Len(path), j \in 1..Len(path) :
       i <= j /\ display(SubSeq(path, i, j), win) = platform_dir(dirs.val[k], win)

\* diff.rs:79-95
DirExcluded(path, dirs, win) ==
  /\ dirs.some
  /\ LET path_str == display(path, win)
     IN \E k \in 1..Len(dirs.val) :
          LET pd == platform_dir(dirs.val[k], win)
          IN \/ contains(path_str, pd \o <<MAIN_SEPARATOR(win)>>)
             \/ ends_with(path_str, pd)

should_exclude(path, extensions, dirs, win) ==
  IF ExtensionExcluded(path, extensions) THEN TRUE
  ELSE IF DirExcluded(path, dirs, win) THEN TRUE
  ELSE FALSE

\* A variant that looks at the file name only.
IsHidden_FileNameOnly(relative_path) ==
  /\ relative_path # <<>>
  /\ starts_with(relative_path[Len(relative_path)], <<".">>)

\* diff.rs:118-124  "Skip hidden files and directories"
IsHidden(relative_path) ==
  \E k \in 1..Len(relative_path) : starts_with(relative_path[k], <<".">>)

(***************************************************************************)
(* calculate_file_hash (diff.rs:47-60).  SHA-256 is replaced by a          *)
(* fixed-width stand-in digest that has no collision on the file contents  *)
(* of the model; format!("{:x}") prints every byte as two lowercase hex    *)
(* digits.                                                                 *)
(***************************************************************************)
RECURSIVE Sha256Acc(_, _)
Sha256Acc(bytes, h) ==
  IF bytes = <<>> THEN h
  ELSE Sha256Acc(Tail(bytes), (h * 31 + Head(bytes) + 7) % 65536)

Sha256(bytes) ==
  LET h == Sha256Acc(bytes, 17) IN <<h \div 256, h % 256>>

HexDigits == <<"0", "1", "2", "3", "4", "5", "6", "7",
               "8", "9", "a", "b", "c", "d", "e", "f">>

RECURSIVE LowerHex(_)
LowerHex(bytes) ==
  IF bytes = <<>> THEN <<>>
  ELSE <<HexDigits[(Head(bytes) \div 16) + 1], HexDigits[(Head(bytes) % 16) + 1]>>
       \o LowerHex(Tail(bytes))

\* The Ok value of calculate_file_hash for a file with these bytes.
calculate_file_hash(bytes) == LowerHex(Sha256(bytes))

FileInfo(relative_path, hash, size) ==
  [relative_path |-> relative_path, hash |-> hash, size |-> size]

(***************************************************************************)
(* Inputs: relative paths, file contents, rules, environment.              *)
(***************************************************************************)
p_a_txt == <<s_a_txt>>
p_b_txt == <<s_b_txt>>
p_a_log == <<s_a_log>>
p_a_LOG == <<s_a_LOG>>
p_a_tar_gz == <<s_a_tar_gz>>
p_a_dot == <<s_a_dot>>
p_README == <<s_README>>
p_build_rs == <<s_build_rs>>
p_build_a == <<s_build, s_a_txt>>
p_rebuild_a == <<s_rebuild, s_a_txt>>
p_src_build_a == <<s_src, s_build, s_a_txt>>
p_src_build == <<s_src, s_build>>
p_git_a == <<s_dot_git, s_a_txt>>
p_src_env == <<s_src, s_dot_env>>
p_dot_log == <<s_dot_log>>

\* File contents: "h", "H" (same length, different bytes) and "hi".
c_h == <<104>>
c_H == <<72>>
c_hi == <<104, 105>>

Pass == {"source", "target"}

\* A directory argument: its root is a directory or does not exist; files
\* maps the relative path of every regular file under the root to its bytes.
Tree(root, files) == [root |-> root, files |-> files]
NoFiles == [p \in {} |-> <<>>]
MissingRoot == Tree("missing", NoFiles)

\* All trees whose files are among paths, with contents among contents.
TreesOver(paths, contents) ==
  UNION {{Tree("dir", f) : f \in [Q -> contents]} : Q \in SUBSET paths}

DiffPaths == {p_a_txt, p_b_txt}

FilterPaths ==
  {p_a_txt, p_a_log, p_a_LOG, p_a_tar_gz, p_a_dot, p_README, p_build_rs,
   p_build_a, p_rebuild_a, p_src_build_a, p_src_build, p_git_a, p_src_env,
   p_dot_log}

ExtensionRules ==
  {None, Some(<<>>), Some(<<s_dot_log>>), Some(<<s_log>>), Some(<<s_tar_gz>>),
   Some(<<s_gz, s_dot_LOG>>), Some(<<s_dot>>)}

DirRules ==
  {None, Some(<<s_build>>), Some(<<s_src_bs_build>>), Some(<<s_src_sl_build>>),
   Some(<<s_build_sl>>)}

\* Values of DIFFPATCH_IO_THREADS: unset, or set to a string.
EnvValues ==
  {None, Some(<<>>), Some(<<"x">>), Some(<<"0">>), Some(<<"1">>), Some(<<"3">>),
   Some(<<"+", "2">>), Some(<<"-", "1">>)}

(***************************************************************************)
(* IO_THREADS (diff.rs:13-28).                                             *)
(***************************************************************************)
Digit(c) ==
  CASE c = "0" -> 0 [] c = "1" -> 1 [] c = "2" -> 2 [] c = "3" -> 3
    [] c = "4" -> 4 [] c = "5" -> 5 [] c = "6" -> 6 [] c = "7" -> 7
    [] c = "8" -> 8 [] c = "9" -> 9 [] OTHER -> -1

RECURSIVE ParseDigits(_, _)
ParseDigits(s, acc) ==
  IF s = <<>> THEN Some(acc)
  ELSE IF Digit(Head(s)) < 0 THEN None
  ELSE ParseDigits(Tail(s), acc * 10 + Digit(Head(s)))

\* str::parse::<usize>(): an optional '+', then one or more decimal digits.
parse_usize(s) ==
  LET digits == IF s # <<>> /\ Head(s) = "+" THEN Tail(s) ELSE s
  IN IF digits = <<>> THEN None ELSE ParseDigits(digits, 0)

min(a, b) == IF a < b THEN a ELSE b

\* A variant without the cap.
default_threads_NoCap(cpus) == cpus

\* diff.rs:19-20 and 23-24
default_threads(cpus) == min(cpus, DefaultThreadCap)

\* The initializer of the lazy static.
io_threads_init(var, cpus) ==
  IF var.some
  THEN (IF parse_usize(var.val).some THEN parse_usize(var.val).val
        ELSE default_threads(cpus))
  ELSE default_threads(cpus)

\* A variant that builds a pool of exactly n threads, also for n = 0.
pool_threads_Exactly(n, cpus) == n

\* rayon::ThreadPoolBuilder::num_threads(n).build(): n = 0 lets rayon choose
\* the number of threads, which is the number of logical CPUs.
pool_threads(n, cpus) == IF n = 0 THEN cpus ELSE n

(***************************************************************************)
(* State.                                                                  *)
(***************************************************************************)
VARIABLES
  env,                \* the value of DIFFPATCH_IO_THREADS
  num_cpus,           \* num_cpus::get()
  windows,            \* cfg!(windows) of the build
  source_dir,         \* arguments of compare_directories
  target_dir,
  exclude_extensions,
  exclude_dirs,
  IO_THREADS,         \* the lazy static: None until first dereferenced
  pass,               \* which scan_directory call is (or was last) running
  pc,                 \* position in the running call
  files_to_process,   \* per pass: the work list of the call
  pool,               \* per pass: threads of the pool the call built (0: none yet)
  task,               \* per pass: every work item's status ("pending", "metadata",
                      \* "hashing", then "done" or "failed") and metadata length
  results,            \* per pass: the Option<(PathBuf, FileInfo)> of finished items
  files_map,          \* per pass: the HashMap the call assembles
  source_files,       \* locals of compare_directories
  target_files,
  diffs,
  ret,                \* None, or the value compare_directories returned
  faults              \* failures injected so far

vars ==
  <<env, num_cpus, windows, source_dir, target_dir, exclude_extensions,
    exclude_dirs, IO_THREADS, pass, pc, files_to_process, pool, task, results,
    files_map, source_files, target_files, diffs, ret, faults>>

inputs ==
  <<env, num_cpus, windows, source_dir, target_dir, exclude_extensions,
    exclude_dirs>>

EmptyMap == [p \in {} |-> None]

dir_path(ps) == IF ps = "source" THEN source_dir ELSE target_dir

(***************************************************************************)
(* Initial states: three families of inputs.                               *)
(***************************************************************************)
\* Every pair of trees over two paths and two contents, and missing roots.
DiffInputs ==
  /\ source_dir \in TreesOver(DiffPaths, {c_h, c_H}) \cup {MissingRoot}
  /\ target_dir \in TreesOver(DiffPaths, {c_h, c_H}) \cup {MissingRoot}
  /\ exclude_extensions = None
  /\ exclude_dirs = None
  /\ env = None
  /\ num_cpus = 2
  /\ windows = FALSE

\* Every environment value and CPU count, on trees with two files each.
PoolInputs ==
  /\ source_dir = Tree("dir", (p_a_txt :> c_h) @@ (p_b_txt :> c_hi))
  /\ target_dir = Tree("dir", (p_a_txt :> c_h) @@ (p_b_txt :> c_H))
  /\ exclude_extensions = None
  /\ exclude_dirs = None
  /\ env \in EnvValues
  /\ num_cpus \in 1..MaxCpus
  /\ windows = FALSE

\* Every rule set on both hosts, for one path that is in one tree only or
\* in both, with the same or with different content.
FilterInputs ==
  /\ \E p \in FilterPaths :
       \/ /\ source_dir = Tree("dir", p :> c_h)
          /\ target_dir = Tree("dir", p :> c_hi)
       \/ /\ source_dir = Tree("dir", p :> c_h)
          /\ target_dir = Tree("dir", p :> c_h)
       \/ /\ source_dir = Tree("dir", NoFiles)
          /\ target_dir = Tree("dir", p :> c_hi)
       \/ /\ source_dir = Tree("dir", p :> c_h)
          /\ target_dir = Tree("dir", NoFiles)
  /\ exclude_extensions \in ExtensionRules
  /\ exclude_dirs \in DirRules
  /\ env = None
  /\ num_cpus = 2
  /\ windows \in BOOLEAN

Init ==
  /\ DiffInputs \/ PoolInputs \/ FilterInputs
  /\ IO_THREADS = None
  /\ pass = "source"
  /\ pc = "walk"
  /\ files_to_process = [ps \in Pass |-> {}]
  /\ pool = [ps \in Pass |-> 0]
  /\ task = [ps \in Pass |-> EmptyMap]
  /\ results = [ps \in Pass |-> EmptyMap]
  /\ files_map = [ps \in Pass |-> EmptyMap]
  /\ source_files = EmptyMap
  /\ target_files = EmptyMap
  /\ diffs = <<>>
  /\ ret = None
  /\ faults = 0

(***************************************************************************)
(* scan_directory (diff.rs:101-178).                                       *)
(***************************************************************************)
\* Every proper ancestor directory of a relative path, the root included.
Ancestors(path) == {SubSeq(path, 1, k) : k \in 0..(Len(path) - 1)}

\* WalkDir::new(dir_path).into_iter(): one Err item when the root cannot be
\* read, otherwise an Ok entry per directory and per file (the order of the
\* walk is not modelled).
WalkDir(dir) ==
  IF dir.root = "missing" THEN {[ok |-> FALSE]}
  ELSE {[ok |-> TRUE, is_file |-> FALSE, path |-> d] :
          d \in {<<>>} \cup UNION {Ancestors(p) : p \in DOMAIN dir.files}}
       \cup {[ok |-> TRUE, is_file |-> TRUE, path |-> p] : p \in DOMAIN dir.files}

\* diff.rs:111-130  the closure of the last filter
KeepEntry(relative_path, extensions, dirs, win) ==
  IF IsHidden(relative_path) THEN FALSE
  ELSE ~should_exclude(relative_path, extensions, dirs, win)

\* diff.rs:107-131
Enumerate(dir, extensions, dirs, win) ==
  {e.path : e \in {e \in {r \in WalkDir(dir) : r.ok} :
                     /\ e.is_file
                     /\ KeepEntry(e.path, extensions, dirs, win)}}

\* diff.rs:107-131: the walk collects the work list.
Walk ==
  /\ pc = "walk"
  /\ LET work == Enumerate(dir_path(pass), exclude_extensions, exclude_dirs, windows)
     IN /\ files_to_process' = [files_to_process EXCEPT ![pass] = work]
        /\ task' = [task EXCEPT ![pass] = [p \in work |-> [st |-> "pending", len |-> 0]]]
  /\ pc' = "pool"
  /\ UNCHANGED <<inputs, IO_THREADS, pass, pool, results, files_map,
                 source_files, target_files, diffs, ret, faults>>

\* diff.rs:134-137: the first dereference initializes IO_THREADS; a pool that
\* cannot be built with that many threads (a failure, counted in faults) is
\* replaced by rayon's default one.  The default pool is taken to build: the
\* unwrap() of diff.rs:137 would otherwise end the process.
BuildPool ==
  /\ pc = "pool"
  /\ LET n == IF IO_THREADS.some THEN IO_THREADS.val
              ELSE io_threads_init(env, num_cpus)
     IN /\ IO_THREADS' = Some(n)
        /\ \/ /\ pool' = [pool EXCEPT ![pass] = pool_threads(n, num_cpus)]
              /\ faults' = faults
           \/ /\ faults < MaxFaults
              /\ pool' = [pool EXCEPT ![pass] = pool_threads(0, num_cpus)]
              /\ faults' = faults + 1
  /\ pc' = "hash"
  /\ UNCHANGED <<inputs, pass, files_to_process, task, results, files_map,
                 source_files, target_files, diffs, ret>>

Running(ps) == {p \in DOMAIN task[ps] : task[ps][p].st \in {"metadata", "hashing"}}

\* A free worker of the pool takes a work item (diff.rs:140-146).
WorkerFree(ps) == Cardinality(Running(ps)) < pool[ps]

StartTask(p) ==
  /\ pc = "hash"
  /\ p \in DOMAIN task[pass]
  /\ task[pass][p].st = "pending"
  /\ WorkerFree(pass)
  /\ task' = [task EXCEPT ![pass][p].st = "metadata"]
  /\ UNCHANGED <<inputs, IO_THREADS, pass, pc, files_to_process, pool, results,
                 files_map, source_files, target_files, diffs, ret, faults>>

\* diff.rs:149-152  fs::metadata(full_path)
Metadata(p) ==
  /\ pc = "hash"
  /\ p \in DOMAIN task[pass]
  /\ task[pass][p].st = "metadata"
  /\ \/ /\ task' = [task EXCEPT ![pass][p] =
                      [st |-> "hashing", len |-> Len(dir_path(pass).files[p])]]
        /\ UNCHANGED <<results, faults>>
     \/ /\ faults < MaxFaults
        /\ task' = [task EXCEPT ![pass][p].st = "failed"]
        /\ results' = [results EXCEPT ![pass] = (p :> None) @@ @]
        /\ faults' = faults + 1
  /\ UNCHANGED <<inputs, IO_THREADS, pass, pc, files_to_process, pool,
                 files_map, source_files, target_files, diffs, ret>>

\* A variant that keeps a record, with an empty hash, for a file that could
\* not be hashed.
HashResult_KeepUnhashed(p, bytes, len, ok) ==
  IF ok THEN Some(<<p, FileInfo(p, calculate_file_hash(bytes), len)>>)
  ELSE Some(<<p, FileInfo(p, <<>>, len)>>)

\* diff.rs:155-167  calculate_file_hash(full_path) and the task's value
HashResult(p, bytes, len, ok) ==
  IF ok THEN Some(<<p, FileInfo(p, calculate_file_hash(bytes), len)>>)
  ELSE None

Hash(p) ==
  /\ pc = "hash"
  /\ p \in DOMAIN task[pass]
  /\ task[pass][p].st = "hashing"
  /\ \/ /\ task' = [task EXCEPT ![pass][p].st = "done"]
        /\ results' = [results EXCEPT ![pass] =
               (p :> HashResult(p, dir_path(pass).files[p], task[pass][p].len, TRUE)) @@ @]
        /\ faults' = faults
     \/ /\ faults < MaxFaults
        /\ task' = [task EXCEPT ![pass][p].st = "failed"]
        /\ results' = [results EXCEPT ![pass] =
               (p :> HashResult(p, dir_path(pass).files[p], task[pass][p].len, FALSE)) @@ @]
        /\ faults' = faults + 1
  /\ UNCHANGED <<inputs, IO_THREADS, pass, pc, files_to_process, pool,
                 files_map, source_files, target_files, diffs, ret>>

\* A variant that returns as soon as no item is waiting for a worker.
AllTasksDone_NonePending(ps) ==
  \A p \in DOMAIN task[ps] : task[ps][p].st # "pending"

\* pool.install(.. collect::<Vec<_>>()) returns when every item has its value.
AllTasksDone(ps) ==
  \A p \in DOMAIN task[ps] : task[ps][p].st \in {"done", "failed"}

\* diff.rs:172-175: insert the Some results; the None ones are flattened away.
InsertAll(res) ==
  LET kept == {p \in DOMAIN res : res[p].some}
      keys == {res[p].val[1] : p \in kept}
  IN [k \in keys |-> res[CHOOSE p \in kept : res[p].val[1] = k].val[2]]

Merge ==
  /\ pc = "hash"
  /\ AllTasksDone(pass)
  /\ files_map' = [files_map EXCEPT ![pass] = InsertAll(results[pass])]
  /\ pc' = "return"
  /\ UNCHANGED <<inputs, IO_THREADS, pass, files_to_process, pool, task, results,
                 source_files, target_files, diffs, ret, faults>>

\* diff.rs:177 with diff.rs:188 and 191: Ok(files_map) reaches the caller.
Return ==
  /\ pc = "return"
  /\ IF pass = "source"
     THEN /\ source_files' = files_map[pass]
          /\ pass' = "target"
          /\ pc' = "walk"
          /\ UNCHANGED target_files
     ELSE /\ target_files' = files_map[pass]
          /\ pc' = "diff"
          /\ UNCHANGED <<pass, source_files>>
  /\ UNCHANGED <<inputs, IO_THREADS, files_to_process, pool, task, results,
                 files_map, diffs, ret, faults>>

(***************************************************************************)
(* compare_directories (diff.rs:181-217).                                  *)
(***************************************************************************)
Added(info) == [tag |-> "Added", info |-> info]
Modified(info) == [tag |-> "Modified", info |-> info]
Removed(path) == [tag |-> "Removed", path |-> path]

\* The orders in which a HashMap with these keys may be iterated.
IterOrders(keys) ==
  {o \in [1..Cardinality(keys) -> keys] :
     \A i, j \in 1..Cardinality(keys) : o[i] = o[j] => i = j}

\* A variant that decides "modified" by the byte size instead of the hash.
TargetEntry_BySize(path, target_info, source) ==
  IF path \in DOMAIN source
  THEN (IF source[path].size # target_info.size
        THEN <<Modified(target_info)>> ELSE <<>>)
  ELSE <<Added(target_info)>>

\* diff.rs:197-206  the body of the first loop
TargetEntry(path, target_info, source) ==
  IF path \in DOMAIN source
  THEN (IF source[path].hash # target_info.hash
        THEN <<Modified(target_info)>> ELSE <<>>)
  ELSE <<Added(target_info)>>

\* diff.rs:196-207
RECURSIVE FindModifiedAndAdded(_, _, _)
FindModifiedAndAdded(order, source, target) ==
  IF order = <<>> THEN <<>>
  ELSE TargetEntry(Head(order), target[Head(order)], source)
       \o FindModifiedAndAdded(Tail(order), source, target)

\* A variant without the contains_key test.
SourceEntry_NoLookup(path, target) == <<Removed(path)>>

\* diff.rs:211-213  the body of the second loop
SourceEntry(path, target) ==
  IF path \notin DOMAIN target THEN <<Removed(path)>> ELSE <<>>

\* diff.rs:210-214
RECURSIVE FindRemoved(_, _)
FindRemoved(order, target) ==
  IF order = <<>> THEN <<>>
  ELSE SourceEntry(Head(order), target) \o FindRemoved(Tail(order), target)

\* diff.rs:193-216
Compare ==
  /\ pc = "diff"
  /\ \E to \in IterOrders(DOMAIN target_files), so \in IterOrders(DOMAIN source_files) :
       LET d == FindModifiedAndAdded(to, source_files, target_files)
                \o FindRemoved(so, target_files)
       IN /\ diffs' = d
          /\ ret' = Some([ok |-> TRUE, val |-> d])
  /\ pc' = "done"
  /\ UNCHANGED <<inputs, IO_THREADS, pass, files_to_process, pool, task, results,
                 files_map, source_files, target_files, faults>>

Next ==
  \/ Walk
  \/ BuildPool
  \/ \E p \in DiffPaths \cup FilterPaths : StartTask(p)
  \/ \E p \in DiffPaths \cup FilterPaths : Metadata(p)
  \/ \E p \in DiffPaths \cup FilterPaths : Hash(p)
  \/ Merge
  \/ Return
  \/ Compare

Spec == Init /\ [][Next]_vars

\* The pool's workers and the calling thread are scheduled fairly.
FairSpec == Spec /\ WF_vars(Next)

(***************************************************************************)
(* Properties.                                                             *)
(***************************************************************************)
\* The path a diff entry is about.
EntryPath(e) == IF e.tag = "Removed" THEN e.path ELSE e.info.relative_path

\* The positions of diffs whose entry is about path p.
EntriesAbout(p) == {i \in 1..Len(diffs) : EntryPath(diffs[i]) = p}

\* The call of scan_directory for pass ps has collected its work list.
Walked(ps) ==
  IF ps = "source" THEN pc # "walk" \/ pass = "target"
  ELSE pass = "target" /\ pc # "walk"

\* The call of scan_directory for pass ps has assembled its map.
Merged(ps) ==
  IF ps = "source" THEN pass = "target" \/ pc = "return"
  ELSE pass = "target" /\ pc \in {"return", "diff", "done"}

\* The work items of pass ps whose metadata lookup or hashing failed.
FailedFiles(ps) == {p \in DOMAIN task[ps] : task[ps][p].st = "failed"}

\* The record of the file at p in tree dir, from the file's bytes.
RecordOf(dir, p) ==
  FileInfo(p, calculate_file_hash(dir.files[p]), Len(dir.files[p]))

\* C1: the returned list has, for every path of the two snapshots, exactly one
\* entry when the path differs and none otherwise: Added with the target's
\* record for a path only in the target, Modified with the target's record
\* for a path in both with different hashes, Removed for a path only in the
\* source, nothing for a path in both with equal hashes; and it has no entry
\* about any other path.
C1_DiffIsExact ==
  pc = "done" =>
    /\ \A p \in (DOMAIN source_files) \cup (DOMAIN target_files) :
         LET inS == p \in DOMAIN source_files
             inT == p \in DOMAIN target_files
             expected ==
               IF inT /\ ~inS THEN {Added(target_files[p])}
               ELSE IF inS /\ ~inT THEN {Removed(p)}
               ELSE IF source_files[p].hash # target_files[p].hash
                    THEN {Modified(target_files[p])}
               ELSE {}
         IN /\ Cardinality(EntriesAbout(p)) = Cardinality(expected)
            /\ \A i \in EntriesAbout(p) : diffs[i] \in expected
    /\ \A i \in 1..Len(diffs) :
         EntryPath(diffs[i]) \in (DOMAIN source_files) \cup (DOMAIN target_files)
    /\ ret = Some([ok |-> TRUE, val |-> diffs])

\* A comparison that returned one Modified and one Removed entry while the
\* snapshots also disagree in nothing else.
C1_Witness ==
  /\ pc = "done"
  /\ Len(diffs) = 2
  /\ {diffs[1].tag, diffs[2].tag} = {"Modified", "Removed"}
  /\ \E p \in DOMAIN source_files :
       /\ p \in DOMAIN target_files
       /\ source_files[p].size = target_files[p].size
       /\ source_files[p].hash # target_files[p].hash

\* C2: when the root of the source tree or of the target tree cannot be
\* traversed, compare_directories returns an error and no diff list.
C2_MissingRootAborts ==
  (pc = "done" /\ (source_dir.root = "missing" \/ target_dir.root = "missing"))
    => (ret.some /\ ~ret.val.ok)

\* C3: a per-file failure never becomes an error of the call; the map of a
\* pass holds exactly the work items that did not fail, each with the record
\* of its file, and a failed file is compared as if it were not in its tree.
C3_FailedFilesAreDropped ==
  /\ \A ps \in Pass :
       Merged(ps) =>
         /\ DOMAIN files_map[ps] = files_to_process[ps] \ FailedFiles(ps)
         /\ \A p \in DOMAIN files_map[ps] : files_map[ps][p] = RecordOf(dir_path(ps), p)
  /\ pc = "done" =>
       /\ ret.some /\ ret.val.ok
       /\ source_files = files_map["source"]
       /\ target_files = files_map["target"]
       /\ \A p \in FailedFiles("target") :
            p \in DOMAIN source_files =>
              \E i \in 1..Len(diffs) : diffs[i] = Removed(p)
       /\ \A p \in FailedFiles("source") :
            p \in DOMAIN target_files =>
              \E i \in 1..Len(diffs) : diffs[i] = Added(RecordOf(target_dir, p))

\* A file of both trees failed in the target pass and is reported Removed,
\* next to another file of the pass that was recorded.
C3_Witness ==
  /\ pc = "done"
  /\ \E p \in FailedFiles("target") :
       /\ p \in DOMAIN source_files
       /\ \E i \in 1..Len(diffs) : diffs[i] = Removed(p)
  /\ DOMAIN target_files # {}

\* C4: two trees with the same relative paths and the same bytes at each
\* path give an empty diff list when no file fails in either pass.
C4_IdenticalTreesNoDiff ==
  (/\ pc = "done"
   /\ source_dir.files = target_dir.files
   /\ FailedFiles("source") = {}
   /\ FailedFiles("target") = {})
    => (diffs = <<>> /\ ret = Some([ok |-> TRUE, val |-> <<>>]))

\* Two identical trees with two files were compared.
C4_Witness ==
  /\ pc = "done"
  /\ source_dir.files = target_dir.files
  /\ Cardinality(DOMAIN source_files) = 2
  /\ DOMAIN target_files = DOMAIN source_files
  /\ diffs = <<>>

\* A relative path with a component that begins with '.'.
HasDotComponent(path) ==
  \E k \in 1..Len(path) : path[k] # <<>> /\ path[k][1] = "."

HostSeparator == IF windows THEN "\\" ELSE "/"

\* A fragment with both kinds of separator turned into the host's.
Normalized(fragment) ==
  [i \in 1..Len(fragment) |->
     IF fragment[i] \in {"/", "\\"} THEN HostSeparator ELSE fragment[i]]

\* s has t at position i.
OccursAt(s, t, i) ==
  i >= 1 /\ i + Len(t) - 1 <= Len(s) /\ SubSeq(s, i, i + Len(t) - 1) = t

\* Some fragment of the directory rules, followed by the separator, occurs in
\* the path's string form, or the string form ends with the fragment.
DirRuleMatches(path) ==
  /\ exclude_dirs.some
  /\ LET str == display(path, windows)
     IN \E k \in 1..Len(exclude_dirs.val) :
          LET frag == Normalized(exclude_dirs.val[k])
          IN \/ \E i \in 1..(Len(str) + 1) : OccursAt(str, frag \o <<HostSeparator>>, i)
             \/ OccursAt(str, frag, Len(str) - Len(frag) + 1)

\* C6: a non-hidden file whose path a directory fragment matches as a
\* substring is left out of the work list, and without extension rules no
\* other non-hidden file is; with the rule ["build"], no snapshot has a key
\* with a component named build or a component that ends with build.
C6_DirectoryRule ==
  /\ \A ps \in Pass :
       Walked(ps) =>
         \A p \in DOMAIN dir_path(ps).files :
           ~HasDotComponent(p) =>
             /\ DirRuleMatches(p) => p \notin files_to_process[ps]
             /\ exclude_extensions = None =>
                  (p \notin files_to_process[ps] => DirRuleMatches(p))
  /\ exclude_dirs = Some(<<s_build>>) =>
       \A p \in (DOMAIN source_files) \cup (DOMAIN target_files)
                  \cup (DOMAIN files_map["source"]) \cup (DOMAIN files_map["target"]) :
         \A k \in 1..(Len(p) - 1) :
           p[k] # s_build /\ ~OccursAt(p[k], s_build, Len(p[k]) - 4)

\* With the rule ["build"] alone, a file under a component rebuild that is
\* in both trees with different bytes was compared and gave no entry.
C6_Witness ==
  /\ pc = "done"
  /\ exclude_dirs = Some(<<s_build>>)
  /\ exclude_extensions = None
  /\ p_rebuild_a \in DOMAIN source_dir.files
  /\ p_rebuild_a \in DOMAIN target_dir.files
  /\ source_dir.files[p_rebuild_a] # target_dir.files[p_rebuild_a]
  /\ diffs = <<>>

\* The file name of path has a last '.', and the rule list has the text after
\* it, bare or with a leading '.'.
ExtensionRuleMatches(path) ==
  /\ exclude_extensions.some
  /\ path # <<>>
  /\ LET name == path[Len(path)]
     IN \E i \in 1..Len(name) :
          /\ name[i] = "."
          /\ \A j \in (i + 1)..Len(name) : name[j] # "."
          /\ \E k \in 1..Len(exclude_extensions.val) :
               LET rule == exclude_extensions.val[k]
                   ext == SubSeq(name, i + 1, Len(name))
               IN rule = ext \/ (rule # <<>> /\ rule[1] = "." /\ Tail(rule) = ext)

\* C7: a non-hidden file is left out of the work list when the rule list has
\* its final extension, bare or with a leading '.', in the same case, and
\* without directory rules no other non-hidden file is; so a file without
\* extension is never left out by the extension rules.
C7_ExtensionRule ==
  \A ps \in Pass :
    Walked(ps) =>
      \A p \in DOMAIN dir_path(ps).files :
        ~HasDotComponent(p) =>
          /\ ExtensionRuleMatches(p) => p \notin files_to_process[ps]
          /\ exclude_dirs = None =>
               (p \notin files_to_process[ps] => ExtensionRuleMatches(p))

\* With the rule ["tar.gz"] alone, a.tar.gz in the target only was compared
\* and reported Added.
C7_Witness ==
  /\ pc = "done"
  /\ exclude_extensions = Some(<<s_tar_gz>>)
  /\ exclude_dirs = None
  /\ p_a_tar_gz \in DOMAIN target_dir.files
  /\ Len(diffs) = 1
  /\ diffs[1] = Added(RecordOf(target_dir, p_a_tar_gz))

\* The configured number of workers: the override when it is set and is an
\* unsigned decimal number, else the smaller of the CPU count and 4.
ConfiguredThreads ==
  IF env.some /\ parse_usize(env.val).some THEN parse_usize(env.val).val
  ELSE IF num_cpus < 4 THEN num_cpus ELSE 4

\* C8 as stated, for the runs in which no failure is injected: every pool has
\* the configured number of workers, and never more hashing tasks run at once
\* than that number.
C8_PoolHasConfiguredSize ==
  faults = 0 =>
    /\ IO_THREADS.some => IO_THREADS.val = ConfiguredThreads
    /\ \A ps \in Pass :
         pool[ps] > 0 =>
           /\ pool[ps] = ConfiguredThreads
           /\ Cardinality(Running(ps)) <= ConfiguredThreads

\* C8, amended: IO_THREADS, once read, is the configured number; every pool
\* has that many workers or, when that number is 0 or such a pool cannot be
\* built, as many workers as the host has CPUs; and never more hashing tasks
\* run at once than the pool has workers.
C8_PoolIsBounded ==
  /\ IO_THREADS.some => IO_THREADS.val = ConfiguredThreads
  /\ \A ps \in Pass :
       /\ pool[ps] > 0 =>
            /\ IO_THREADS.some
            /\ pool[ps] \in {ConfiguredThreads, num_cpus}
            /\ ConfiguredThreads = 0 => pool[ps] = num_cpus
       /\ Cardinality(Running(ps)) <= pool[ps]
       /\ (Walked(ps) /\ ~(pass = ps /\ pc = "pool")) => pool[ps] > 0

\* On a host with more than 4 CPUs and no usable override, two hashing tasks
\* run at once in a pool of 4 workers.
C8_Witness ==
  /\ num_cpus > 4
  /\ env = Some(<<"x">>)
  /\ pool[pass] = 4
  /\ Cardinality(Running(pass)) = 2

\* The work items of pass ps that have their value.
Finished(ps) == {p \in DOMAIN task[ps] : task[ps][p].st \in {"done", "failed"}}

\* The map that pass ps must produce, from the work list and the outcome of
\* every item alone.
ExpectedMap(ps) ==
  [p \in {q \in files_to_process[ps] : task[ps][q].st = "done"} |->
     RecordOf(dir_path(ps), p)]

\* C9, the states: no item has left "pending" before the work list is
\* collected and a pool exists; the map of a pass is empty until every item
\* of the pass has its value, and from then on it is the map determined by
\* the work list and the items' outcomes.
C9_PhasesInv ==
  \A ps \in Pass :
    /\ DOMAIN task[ps] = files_to_process[ps]
    /\ DOMAIN results[ps] = Finished(ps)
    /\ (\E p \in DOMAIN task[ps] : task[ps][p].st # "pending") =>
         (Walked(ps) /\ pool[ps] > 0)
    /\ Finished(ps) # files_to_process[ps] => files_map[ps] = EmptyMap
    /\ Merged(ps) =>
         (Finished(ps) = files_to_process[ps] /\ files_map[ps] = ExpectedMap(ps))

\* C9, the steps: a step that changes the status of a work item changes the
\* status and the value of that item only, and neither the work list nor the
\* map; the work list of a pass changes only in the walk, and the map only
\* when every item has its value.
C9_PhasesStep ==
  \A ps \in Pass :
    /\ (task[ps] # task'[ps] /\ DOMAIN task[ps] = DOMAIN task'[ps]) =>
         /\ Cardinality({p \in DOMAIN task[ps] : task[ps][p] # task'[ps][p]}) = 1
         /\ \A p \in DOMAIN results[ps] : results'[ps][p] = results[ps][p]
         /\ \A p \in DOMAIN results'[ps] :
              p \notin DOMAIN results[ps] => task[ps][p] # task'[ps][p]
         /\ files_map' = files_map
         /\ files_to_process' = files_to_process
    /\ files_to_process'[ps] # files_to_process[ps] => (pc = "walk" /\ pass = ps)
    /\ files_map'[ps] # files_map[ps] =>
         (pass = ps /\ Finished(ps) = files_to_process[ps])

\* C9: the phases of a pass are strictly ordered for every interleaving.
C9_PhasesAreOrdered == [](C9_PhasesInv) /\ [][C9_PhasesStep]_vars

\* Two items of one pass were in the hands of two workers at once, and the
\* pass has assembled the map of both.
C9_Witness ==
  /\ pc = "return"
  /\ pool[pass] >= 2
  /\ Cardinality(files_to_process[pass]) = 2
  /\ DOMAIN files_map[pass] = files_to_process[pass]

====
